---- MODULE Spec2Model ----
(***************************************************************************)
(* A model of thread_insights_client/client.py (class ThreadsInsights).    *)
(*                                                                         *)
(* Conventions.  A Python str-or-None is a string, None being the          *)
(* sentinel NoneV.  A JSON object is a record; a key that is absent from   *)
(* the object is absent from the record's DOMAIN and dict.get is Get.      *)
(* A string built by str.join or by an f-string is the sequence of its     *)
(* pieces (the separator included), so that two different joins differ.    *)
(* The HTTP collaborator (the requests library) is the environment: every  *)
(* call draws its outcome from a bounded set of outcomes.                  *)
(***************************************************************************)
EXTENDS Integers, Sequences, FiniteSets, TLC

VARIABLES
    client_id,          \* self.client_id
    client_secret,      \* self.client_secret
    short_lived_token,  \* self.short_lived_token
    long_lived_token,   \* self.long_lived_token
    pc,                 \* where the caller of the client is
    op,                 \* the public method being run (or just run) and its arguments
    result,             \* what the method returned
    http_log,           \* the HTTP requests issued by the method, in order
    after_exchange_ok,  \* history: the previous call was a successful exchange_code_for_token
    all_threads,        \* fetch_all_threads_with_pagination: the accumulator
    after_cursor,       \* fetch_all_threads_with_pagination: the cursor of the next request
    responses,          \* history: what each list request of the run returned
    threads_df,         \* fetch_and_merge_threads_with_insights: the flattened threads
    insights_list,      \* fetch_insights_for_media_in_dataframe: the accumulator
    outcomes            \* history: what each media-insights request of the run returned

vars == <<client_id, client_secret, short_lived_token, long_lived_token, pc, op,
          result, http_log, after_exchange_ok, all_threads, after_cursor, responses,
          threads_df, insights_list, outcomes>>

session == <<client_id, client_secret, short_lived_token, long_lived_token>>
pager == <<all_threads, after_cursor, responses>>
merger == <<threads_df, insights_list, outcomes>>

----------------------------------------------------------------------------
(* Bounds of the model. *)

MaxQuery == 2      \* query parameters in a redirect URL
MaxNames == 2      \* names in a requested metric / field list
MaxPages == 3      \* list requests answered in one pagination run
MaxThreads == 2    \* thread records the server hands out in one pagination run
MaxBreakdowns == 2 \* breakdowns of a follower_demographics item
MaxResults == 2    \* results of one breakdown

----------------------------------------------------------------------------
(* Python values. *)

NoneV == "<None>"

\* None in a place that otherwise holds a JSON object.
NoneObj == [is_none |-> TRUE]

\* Truthiness of a str-or-None: `if x`.
Truthy(x) == x # NoneV /\ x # ""

\* `a or b` on str-or-None operands.
Or(a, b) == IF Truthy(a) THEN a ELSE b

\* dict.get(key) with the default None.
Get(d, k) == IF k \in DOMAIN d THEN d[k] ELSE NoneV

\* dict.get(key, default).
GetOr(d, k, default) == IF k \in DOMAIN d THEN d[k] ELSE default

\* sep.join(parts): the parts with the separator between neighbours.
RECURSIVE Join(_, _)
Join(sep, parts) ==
    IF Len(parts) = 0 THEN <<>>
    ELSE IF Len(parts) = 1 THEN <<parts[1]>>
    ELSE <<parts[1], sep>> \o Join(sep, Tail(parts))

\* All sequences over S of length at most n.
SeqsUpTo(S, n) == UNION {[1..k -> S] : k \in 0..n}

\* [x for x in names if x not in valid]
NotIn(names, valid) == SelectSeq(names, LAMBDA x : x \notin valid)

\* The elements of a sequence.
Range(s) == {s[i] : i \in DOMAIN s}

----------------------------------------------------------------------------
(* _build_error *)

build_error(message, code) ==
    IF Truthy(code)
    THEN [error |-> [message |-> message, code |-> code]]
    ELSE [error |-> [message |-> message]]

\* `"error" in response`
HasError(r) == "error" \in DOMAIN r

\* The code of an error value (None for a success value, whose "error" is None or absent).
CodeOf(r) ==
    IF HasError(r) /\ "code" \in DOMAIN r.error
    THEN r.error.code ELSE NoneV

----------------------------------------------------------------------------
(* The HTTP collaborator.  A call either raises a RequestException (no     *)
(* connection, timeout ...) or returns a response with a status code and   *)
(* a body.  response.json() parses the body; on a body that is not JSON it *)
(* raises requests.exceptions.JSONDecodeError, which is a                  *)
(* RequestException (requests >= 2.27, what setup.py's unpinned            *)
(* "requests" installs), so the methods' except clauses catch it.          *)

Exception == [kind |-> "exception"]
Response(status, body) == [kind |-> "response", status_code |-> status, body |-> body]

NotJson == [unparseable |-> TRUE]
ErrBody == [error |-> [message |-> <<"Invalid OAuth access token.">>, type |-> "OAuthException"]]

IsJson(body) == "unparseable" \notin DOMAIN body

StatusCodes == {200, 400}

\* Every outcome of one HTTP call whose 200 bodies are drawn from `bodies`.
HttpOutcomes(bodies) ==
    {Exception}
    \cup {Response(200, b) : b \in bodies \cup {ErrBody, NotJson}}
    \cup {Response(s, b) : s \in StatusCodes \ {200}, b \in {ErrBody, NotJson}}

\* A request of the log together with what the collaborator answered.
Answered(request, outcome) == request @@ ("answer" :> outcome)

\* str(response.json()) of a parsed body.
Str(body) == <<"str", body>>

\* The try/except frame the five HTTP methods share:
\*   try: response = requests.get(...)
\*        if response.status_code == 200: <on200, computed of response.json()>
\*        else: return self._build_error(str(response.json()), code=<failed>)
\*   except RequestException as e: return self._build_error(f"Request failed: {e}", "REQUEST_FAILED")
request_failed == build_error(<<"Request failed: ", "e">>, "REQUEST_FAILED")

HttpFrame(outcome, on200, failed) ==
    IF outcome.kind = "exception" THEN request_failed
    ELSE IF ~IsJson(outcome.body) THEN request_failed
    ELSE IF outcome.status_code = 200 THEN on200
    ELSE build_error(Str(outcome.body), failed)

\* The body of the response, when there is one.
BodyOf(outcome) == IF outcome.kind = "response" THEN outcome.body ELSE NotJson

----------------------------------------------------------------------------
(* Token manager. *)

\* A redirect URL is its query string: a sequence of <<key, value>> pairs.
QueryPairs == {<<"code", "">>, <<"code", "c1">>, <<"code", "c2">>, <<"state", "s">>}
RedirectUrls == SeqsUpTo(QueryPairs, MaxQuery)

\* urllib.parse.parse_qs: pairs with a blank value are dropped
\* (keep_blank_values=False); the values of a key keep their order.
parse_qs(query) ==
    LET kept == SelectSeq(query, LAMBDA p : p[2] # "")
        keys == {kept[i][1] : i \in DOMAIN kept}
    IN  [k \in keys |->
            LET ofk == SelectSeq(kept, LAMBDA p : p[1] = k)
            IN  [i \in DOMAIN ofk |-> ofk[i][2]]]

\* query_params.get("code", [None])[0]
auth_code_of(redirect_url) ==
    GetOr(parse_qs(redirect_url), "code", <<NoneV>>)[1]

TokenBodies ==
    {[access_token |-> t, token_type |-> "bearer", expires_in |-> "3600"] : t \in {"tokA", ""}}
    \cup {[token_type |-> "bearer"]}

\* The value exchange_code_for_token returns on HTTP 200.
exchange_on200(token_info) ==
    [short_lived_token |-> Get(token_info, "access_token"),
     token_type |-> Get(token_info, "token_type"),
     expires_in |-> Get(token_info, "expires_in"),
     error |-> NoneObj]

\* Mutant of exchange_result: the credentials are checked before the code.
exchange_result_env_first(redirect_url, outcome) ==
    IF ~Truthy(client_id) \/ ~Truthy(client_secret)
    THEN build_error(<<"Missing 'CLIENT_ID' or 'CLIENT_SECRET'.">>, "MISSING_ENV")
    ELSE IF ~Truthy(auth_code_of(redirect_url))
    THEN build_error(<<"Authorization code not found in the URL.">>, "MISSING_CODE")
    ELSE HttpFrame(outcome, exchange_on200(BodyOf(outcome)), "TOKEN_EXCHANGE_FAILED")

\* The value exchange_code_for_token returns.
exchange_result(redirect_url, outcome) ==
    IF ~Truthy(auth_code_of(redirect_url))
    THEN build_error(<<"Authorization code not found in the URL.">>, "MISSING_CODE")
    ELSE IF ~Truthy(client_id) \/ ~Truthy(client_secret)
    THEN build_error(<<"Missing 'CLIENT_ID' or 'CLIENT_SECRET'.">>, "MISSING_ENV")
    ELSE HttpFrame(outcome, exchange_on200(BodyOf(outcome)), "TOKEN_EXCHANGE_FAILED")

\* Whether exchange_code_for_token reaches requests.post.
exchange_posts(redirect_url) ==
    Truthy(auth_code_of(redirect_url)) /\ Truthy(client_id) /\ Truthy(client_secret)

\* Mutant of Took200: the token is taken from every parsed answer, whatever
\* its status code.
Took200_any_status(outcome) == outcome.kind = "response" /\ IsJson(outcome.body)

\* Whether an HTTP outcome takes the status_code == 200 branch.
Took200(outcome) ==
    outcome.kind = "response" /\ IsJson(outcome.body) /\ outcome.status_code = 200

exchange_code_for_token(redirect_url, outcome) ==
    /\ pc = "idle"
    /\ op' = [name |-> "exchange_code_for_token", redirect_url |-> redirect_url]
    /\ result' = exchange_result(redirect_url, outcome)
    /\ http_log' = IF exchange_posts(redirect_url)
                   THEN <<Answered([endpoint |-> <<"oauth/access_token">>, method |-> "POST",
                                    client_id |-> client_id, client_secret |-> client_secret,
                                    grant_type |-> "authorization_code",
                                    code |-> auth_code_of(redirect_url),
                                    redirect_uri |-> "https://oauth.pstmn.io/v1/browser-callback"],
                                   outcome)>>
                   ELSE <<>>
    /\ short_lived_token' = IF exchange_posts(redirect_url) /\ Took200(outcome)
                            THEN Get(outcome.body, "access_token")
                            ELSE short_lived_token
    /\ pc' = "returned"
    /\ UNCHANGED <<client_id, client_secret, long_lived_token, after_exchange_ok, pager, merger>>

\* token_to_use = short_lived_token or self.short_lived_token
token_to_use(short_lived_token_arg) == Or(short_lived_token_arg, short_lived_token)

long_lived_on200(info) ==
    [long_lived_token |-> Get(info, "access_token"), error |-> NoneObj]

long_lived_result(short_lived_token_arg, outcome) ==
    IF ~Truthy(token_to_use(short_lived_token_arg))
    THEN build_error(<<"No short-lived token provided.">>, "MISSING_TOKEN")
    ELSE IF ~Truthy(client_secret)
    THEN build_error(<<"Missing 'CLIENT_SECRET' in environment variables.">>, "MISSING_ENV")
    ELSE HttpFrame(outcome, long_lived_on200(BodyOf(outcome)), "LONG_TOKEN_EXCHANGE_FAILED")

long_lived_gets(short_lived_token_arg) ==
    Truthy(token_to_use(short_lived_token_arg)) /\ Truthy(client_secret)

get_long_lived_token(short_lived_token_arg, outcome) ==
    /\ pc = "idle"
    /\ op' = [name |-> "get_long_lived_token", short_lived_token |-> short_lived_token_arg]
    /\ result' = long_lived_result(short_lived_token_arg, outcome)
    /\ http_log' = IF long_lived_gets(short_lived_token_arg)
                   THEN <<Answered([endpoint |-> <<"access_token">>, method |-> "GET",
                                    grant_type |-> "th_exchange_token",
                                    client_secret |-> client_secret,
                                    access_token |-> token_to_use(short_lived_token_arg)],
                                   outcome)>>
                   ELSE <<>>
    /\ long_lived_token' = IF long_lived_gets(short_lived_token_arg) /\ Took200(outcome)
                           THEN Get(outcome.body, "access_token")
                           ELSE long_lived_token
    /\ pc' = "returned"
    /\ UNCHANGED <<client_id, client_secret, short_lived_token, after_exchange_ok, pager, merger>>

----------------------------------------------------------------------------
(* Validator and the three validated fetch operations. *)

USER_VALID_METRICS ==
    <<"likes", "replies", "followers_count", "follower_demographics",
      "reposts", "views", "quotes">>

MEDIA_VALID_METRICS == <<"views", "likes", "replies", "reposts", "quotes", "shares">>

VALID_FIELDS ==
    <<"id", "media_product_type", "media_type", "media_url", "permalink", "owner",
      "username", "text", "timestamp", "shortcode", "thumbnail_url", "children",
      "is_quote_post", "quoted_post", "reposted_post", "has_replies", "alt_text",
      "link_attachment_url">>

VALID_BREAKDOWNS == <<"country", "city", "age", "gender">>

\* The names a caller may ask for: for each operation one allowed name at
\* least and two names that are not allowed.
Names == {"likes", "shares", "id", "bogus"}
NameLists == SeqsUpTo(Names, MaxNames)

\* Mutant of invalid_names: the search stops at the first name that is not allowed.
invalid_names_first(names, valid) ==
    LET invalid == NotIn(names, Range(valid))
    IN  IF invalid = <<>> THEN <<>> ELSE <<invalid[1]>>

\* invalid = [m for m in names if m not in VALID]
invalid_names(names, valid) == NotIn(names, Range(valid))

\* f"Invalid <what>(s): {', '.join(invalid)}. Valid <what>s: {', '.join(VALID)}"
invalid_message(what, names, valid) ==
    <<"Invalid ", what, "(s): ">> \o Join(", ", invalid_names(names, valid))
        \o <<". Valid ", what, "s: ">> \o Join(", ", valid)

\* An optional int argument is a number, None being 0: the code only tests
\* its truthiness (`if since:`), which is the same for None and 0.
\* params with the optional entries whose argument is truthy.
WithInt(params, key, value) == IF value # 0 THEN params @@ (key :> value) ELSE params
WithStr(params, key, value) == IF Truthy(value) THEN params @@ (key :> value) ELSE params

Headers(access_token) == [Authorization |-> <<"Bearer ", access_token>>]

\* The bodies a 200 answer of the two insights endpoints may carry.
MetricBodies ==
    {[data |-> <<[name |-> "likes", values |-> <<[value |-> "5"]>>]>>]}

\* Whether get_threads_user_insights reaches requests.get.
user_insights_gets(metrics, breakdown) ==
    /\ invalid_names(metrics, USER_VALID_METRICS) = <<>>
    /\ Truthy(breakdown) => breakdown \in Range(VALID_BREAKDOWNS)

\* 200: return response.json()
return_json(body) == body

user_insights_result(metrics, breakdown, outcome) ==
    IF invalid_names(metrics, USER_VALID_METRICS) # <<>>
    THEN build_error(invalid_message("metric", metrics, USER_VALID_METRICS), "INVALID_INPUT")
    ELSE IF Truthy(breakdown) /\ breakdown \notin Range(VALID_BREAKDOWNS)
    THEN build_error(<<"Invalid breakdown value. Must be 'country', 'city', 'age', or 'gender'.">>,
                     "INVALID_INPUT")
    ELSE HttpFrame(outcome, return_json(BodyOf(outcome)), "INSIGHTS_FETCH_FAILED")

user_insights_request(access_token, metrics, since, until, breakdown) ==
    [endpoint |-> <<"me/threads_insights">>, method |-> "GET",
     params |-> WithStr(WithInt(WithInt([metric |-> Join(",", metrics)],
                                        "since", since), "until", until),
                        "breakdown", breakdown),
     headers |-> Headers(access_token)]

get_threads_user_insights(access_token, metrics, since, until, breakdown, outcome) ==
    /\ pc = "idle"
    /\ op' = [name |-> "get_threads_user_insights", names |-> metrics, breakdown |-> breakdown]
    /\ result' = user_insights_result(metrics, breakdown, outcome)
    /\ http_log' = IF user_insights_gets(metrics, breakdown)
                   THEN <<Answered(user_insights_request(access_token, metrics, since, until,
                                                         breakdown), outcome)>>
                   ELSE <<>>
    /\ pc' = "returned"
    /\ UNCHANGED <<session, after_exchange_ok, pager, merger>>

media_insights_gets(metrics) == invalid_names(metrics, MEDIA_VALID_METRICS) = <<>>

media_insights_result(metrics, outcome) ==
    IF invalid_names(metrics, MEDIA_VALID_METRICS) # <<>>
    THEN build_error(invalid_message("metric", metrics, MEDIA_VALID_METRICS), "INVALID_INPUT")
    ELSE HttpFrame(outcome, return_json(BodyOf(outcome)), "MEDIA_INSIGHTS_FAILED")

media_insights_request(access_token, media_id, metrics) ==
    [endpoint |-> <<"v1.0/", media_id, "/insights">>, method |-> "GET",
     params |-> [metric |-> Join(",", metrics)],
     headers |-> Headers(access_token)]

get_media_insights(access_token, media_id, metrics, outcome) ==
    /\ pc = "idle"
    /\ op' = [name |-> "get_media_insights", names |-> metrics, media_id |-> media_id]
    /\ result' = media_insights_result(metrics, outcome)
    /\ http_log' = IF media_insights_gets(metrics)
                   THEN <<Answered(media_insights_request(access_token, media_id, metrics),
                                   outcome)>>
                   ELSE <<>>
    /\ pc' = "returned"
    /\ UNCHANGED <<session, after_exchange_ok, pager, merger>>

list_threads_gets(fields) == invalid_names(fields, VALID_FIELDS) = <<>>

list_threads_result(fields, outcome) ==
    IF invalid_names(fields, VALID_FIELDS) # <<>>
    THEN build_error(invalid_message("field", fields, VALID_FIELDS), "INVALID_INPUT")
    ELSE HttpFrame(outcome, return_json(BodyOf(outcome)), "THREADS_FETCH_FAILED")

\* if before: params["before"] = before  elif after: params["after"] = after
with_cursor(params, before, after) ==
    IF Truthy(before) THEN params @@ ("before" :> before)
    ELSE IF Truthy(after) THEN params @@ ("after" :> after)
    ELSE params

list_threads_request(access_token, fields, since, until, limit, before, after) ==
    [endpoint |-> <<"me/threads">>, method |-> "GET",
     params |-> with_cursor(WithInt(WithInt(WithInt([fields |-> Join(",", fields)],
                                                    "since", since), "until", until),
                                    "limit", limit),
                            before, after),
     headers |-> Headers(access_token)]

\* A thread object of the platform's JSON.
ThreadObjs ==
    {[id |-> "t1", text |-> "hello", owner |-> [id |-> "u1"]],
     [id |-> "t2", children |-> [data |-> <<[id |-> "c1"], [id |-> "c2"]>>]]}

\* A 200 answer of the list endpoint: a data array and a paging object,
\* either of which may be missing or incomplete.
PageBody(has_data, data, paging) ==
    IF paging = "none"
    THEN (IF has_data THEN [data |-> data] ELSE [id |-> "me"])
    ELSE LET cursors == IF paging = "no_after" THEN [before |-> "P"]
                        ELSE IF paging = "empty" THEN [before |-> "P", after |-> ""]
                        ELSE [before |-> "P", after |-> paging]
         IN  IF has_data THEN [data |-> data, paging |-> [cursors |-> cursors]]
             ELSE [paging |-> [cursors |-> cursors]]

Cursors == {"A", "B"}
PagingShapes == Cursors \cup {"empty", "no_after", "none"}

\* The pages that carry at most n thread objects, and the pages without a
\* data array.
PageBodies(n) ==
    {PageBody(TRUE, d, p) : d \in SeqsUpTo(ThreadObjs, n), p \in PagingShapes}
    \cup {PageBody(FALSE, <<>>, p) : p \in {"A", "none"}}

\* Two pages for the calls that are not about paging.
SomePages == {PageBody(TRUE, <<>>, "none"), PageBody(TRUE, <<[id |-> "t1"]>>, "A")}

get_list_user_threads(access_token, fields, since, until, limit, before, after, outcome) ==
    /\ pc = "idle"
    /\ op' = [name |-> "get_list_user_threads", names |-> fields]
    /\ result' = list_threads_result(fields, outcome)
    /\ http_log' = IF list_threads_gets(fields)
                   THEN <<Answered(list_threads_request(access_token, fields, since, until,
                                                        limit, before, after), outcome)>>
                   ELSE <<>>
    /\ pc' = "returned"
    /\ UNCHANGED <<session, after_exchange_ok, pager, merger>>

----------------------------------------------------------------------------
(* Tables.  A Python dict that is built key by key is the sequence of its  *)
(* <<key, value>> items, in insertion order.  pd.DataFrame(rows) has the   *)
(* keys of the rows as columns, in the order they are first seen, and NaN  *)
(* where a row lacks a key.                                                *)

NaN == "NaN"

\* {} as a JSON object.
EmptyObj == <<>>

DictKeys(d) == [i \in DOMAIN d |-> d[i][1]]
DictHas(d, k) == \E i \in DOMAIN d : d[i][1] = k
DictGet(d, k) == IF DictHas(d, k) THEN d[CHOOSE i \in DOMAIN d : d[i][1] = k][2] ELSE NaN

\* d[k] = v
DictSet(d, k, v) ==
    IF DictHas(d, k)
    THEN [i \in DOMAIN d |-> IF d[i][1] = k THEN <<k, v>> ELSE d[i]]
    ELSE Append(d, <<k, v>>)

\* The keys of the dicts of a list, in the order they are first seen.
RECURSIVE FirstSeen(_)
FirstSeen(rows) ==
    IF rows = <<>> THEN <<>>
    ELSE LET before == FirstSeen(SubSeq(rows, 1, Len(rows) - 1))
         IN  before \o NotIn(DictKeys(rows[Len(rows)]), Range(before))

\* pd.DataFrame(rows)
DataFrame(rows) ==
    LET cols == FirstSeen(rows)
    IN  [columns |-> cols,
         rows |-> [i \in DOMAIN rows |-> [c \in Range(cols) |-> DictGet(rows[i], c)]]]

\* pd.DataFrame()
EmptyDataFrame == DataFrame(<<>>)

\* df.empty
IsEmpty(df) == df.rows = <<>> \/ df.columns = <<>>

\* The row dict threads_json_to_dataframe builds of one thread.
thread_row(thread) ==
    LET children == GetOr(GetOr(thread, "children", EmptyObj), "data", <<>>)
    IN  <<
        <<"id", Get(thread, "id")>>,
        <<"media_product_type", Get(thread, "media_product_type")>>,
        <<"media_type", Get(thread, "media_type")>>,
        <<"media_url", Get(thread, "media_url")>>,
        <<"permalink", Get(thread, "permalink")>>,
        <<"owner_id", Get(GetOr(thread, "owner", EmptyObj), "id")>>,
        <<"username", Get(thread, "username")>>,
        <<"text", Get(thread, "text")>>,
        <<"timestamp", Get(thread, "timestamp")>>,
        <<"shortcode", Get(thread, "shortcode")>>,
        <<"is_quote_post", Get(thread, "is_quote_post")>>,
        <<"has_replies", Get(thread, "has_replies")>>,
        <<"children_ids",
          IF children # <<>>
          THEN [i \in DOMAIN children |-> Get(children[i], "id")]
          ELSE NoneV>>
        >>

threads_json_to_dataframe(threads_json) ==
    DataFrame([i \in DOMAIN threads_json |-> thread_row(threads_json[i])])

\* The row dict insights_to_dataframe builds of one {"media_id", "insights"}
\* item whose insights carry a data array: the first value of every metric
\* that has values.
RECURSIVE insight_row(_, _)
insight_row(media_id, data) ==
    IF data = <<>> THEN << <<"media_id", media_id>> >>
    ELSE LET row == insight_row(media_id, SubSeq(data, 1, Len(data) - 1))
             insight == data[Len(data)]
         IN  IF "values" \in DOMAIN insight /\ Len(insight.values) > 0
             THEN DictSet(row, insight.name, Get(insight.values[1], "value"))
             ELSE row

RECURSIVE insight_rows(_)
insight_rows(items) ==
    IF items = <<>> THEN <<>>
    ELSE LET item == items[Len(items)]
             rows == insight_rows(SubSeq(items, 1, Len(items) - 1))
         IN  IF "data" \in DOMAIN item.insights
             THEN Append(rows, insight_row(item.media_id, item.insights.data))
             ELSE rows

insights_to_dataframe(items) == DataFrame(insight_rows(items))

\* pd.merge(left, right, left_on="id", right_on="media_id", how="left"):
\* every left row in order, once per right row whose media_id equals its id,
\* in the right rows' order, or once with NaN in the right columns when no
\* right row matches.  (The metric names of this model are not thread
\* columns, so no column gets a suffix.)
matches_of(left_row, right) ==
    SelectSeq(right.rows, LAMBDA r : r["media_id"] = left_row["id"])

joined_row(left_row, right_row) == left_row @@ right_row

unmatched_row(left_row, right) ==
    left_row @@ [c \in Range(right.columns) |-> NaN]

\* Mutant of left_join_rows: an inner join, which drops the rows without a match.
RECURSIVE inner_join_rows(_, _)
inner_join_rows(left_rows, right) ==
    IF left_rows = <<>> THEN <<>>
    ELSE LET row == left_rows[1]
             m == matches_of(row, right)
         IN  [j \in DOMAIN m |-> joined_row(row, m[j])]
             \o inner_join_rows(Tail(left_rows), right)

RECURSIVE left_join_rows(_, _)
left_join_rows(left_rows, right) ==
    IF left_rows = <<>> THEN <<>>
    ELSE LET row == left_rows[1]
             m == matches_of(row, right)
         IN  (IF m = <<>> THEN <<unmatched_row(row, right)>>
              ELSE [j \in DOMAIN m |-> joined_row(row, m[j])])
             \o left_join_rows(Tail(left_rows), right)

merge_left(left, right) ==
    [columns |-> left.columns \o right.columns,
     rows |-> left_join_rows(left.rows, right)]

\* df.drop(columns=[name])
drop_column(df, name) ==
    [columns |-> SelectSeq(df.columns, LAMBDA c : c # name),
     rows |-> [i \in DOMAIN df.rows |->
                 [c \in DOMAIN df.rows[i] \ {name} |-> df.rows[i][c]]]]

\* df.insert(loc, name, value), loc counted from 0
insert_column(df, loc, name, value) ==
    [columns |-> SubSeq(df.columns, 1, loc) \o <<name>>
                 \o SubSeq(df.columns, loc + 1, Len(df.columns)),
     rows |-> [i \in DOMAIN df.rows |-> df.rows[i] @@ (name :> value)]]

\* datetime.now(timezone.utc).isoformat(): the clock is not modelled.
captured_at_str == "now"

\* fetch_and_merge_threads_with_insights from the merge on.
combined_df(threads, insights, client_name) ==
    insert_column(
        insert_column(drop_column(merge_left(threads, insights), "media_id"),
                      0, "client", client_name),
        1, "captured_at", captured_at_str)

----------------------------------------------------------------------------
(* Thread pager. *)

\* limit: int = 50
DefaultLimit == 50

\* paging = response.get("paging", {}); paging.get("cursors", {}).get("after")
next_cursor(response) ==
    Get(GetOr(GetOr(response, "paging", EmptyObj), "cursors", EmptyObj), "after")

\* all_threads.extend(response.get("data", []))
extended(threads, response) == threads \o GetOr(response, "data", <<>>)

\* Mutant of loop_breaks: the loop also leaves after its second page.
loop_breaks_capped(response) ==
    HasError(response) \/ ~Truthy(next_cursor(response)) \/ Len(responses) >= 1

\* Whether the loop leaves after this response: the `break` on an error and
\* the `break` on a falsy cursor.
loop_breaks(response) == HasError(response) \/ ~Truthy(next_cursor(response))

\* Mutant of threads_after: a page is put in front of the earlier pages.
threads_after_prepend(threads, response) ==
    IF HasError(response) THEN threads ELSE GetOr(response, "data", <<>>) \o threads

\* Mutant of threads_after: an error drops the pages accumulated so far.
threads_after_lossy(threads, response) ==
    IF HasError(response) THEN <<>> ELSE extended(threads, response)

\* all_threads after the iteration that received `response`.
threads_after(threads, response) ==
    IF HasError(response) THEN threads ELSE extended(threads, response)

\* The request of the loop's call of get_list_user_threads.
loop_request(cursor) ==
    list_threads_request(op.access_token, op.fields, op.since, op.until,
                         op.limit, NoneV, cursor)

\* What the server may answer to the next list request of the run.
PageOutcomes == HttpOutcomes(PageBodies(MaxThreads - Len(all_threads)))

FieldLists == {<<"id", "text">>, <<"bogus", "id">>}

\* What the server may answer to the next list request of a run of
\* fetch_and_merge_threads_with_insights: the pages whose paging either
\* carries a cursor or is missing.
MergePageOutcomes ==
    HttpOutcomes({PageBody(TRUE, d, p) :
                     d \in SeqsUpTo(ThreadObjs, MaxThreads - Len(all_threads)),
                     p \in {"A", "none"}})

\* The call: all_threads = [], after_cursor = None.
fetch_all_threads_with_pagination(access_token, fields, since, until, limit) ==
    /\ pc = "idle"
    /\ op' = [name |-> "fetch_all_threads_with_pagination", access_token |-> access_token,
              fields |-> fields, since |-> since, until |-> until, limit |-> limit]
    /\ pc' = "paging"
    /\ all_threads' = <<>>
    /\ after_cursor' = NoneV
    /\ responses' = <<>>
    /\ http_log' = <<>>
    /\ UNCHANGED <<session, result, after_exchange_ok, merger>>

\* Mutant of after_paging: without threads an error value is returned, as
\* the HTTP methods do, and not an empty table.
after_paging_error(threads_json) ==
    IF threads_json = <<>>
    THEN /\ result' = build_error(<<"No threads found in the given time frame.">>, NoneV)
         /\ pc' = "returned"
         /\ UNCHANGED merger
    ELSE LET df == threads_json_to_dataframe(threads_json)
         IN  /\ threads_df' = df
             /\ insights_list' = <<>>
             /\ outcomes' = <<>>
             /\ pc' = "insights" /\ UNCHANGED result

\* Where fetch_and_merge_threads_with_insights goes once the pager has
\* returned threads_json: the two early returns, or on to the insights.
after_paging(threads_json) ==
    IF threads_json = <<>>
    THEN /\ result' = EmptyDataFrame
         /\ pc' = "returned"
         /\ UNCHANGED merger
    ELSE LET df == threads_json_to_dataframe(threads_json)
         IN  /\ threads_df' = df
             /\ insights_list' = <<>>
             /\ outcomes' = <<>>
             /\ IF IsEmpty(df)
                THEN result' = df /\ pc' = "returned"
                ELSE pc' = "insights" /\ UNCHANGED result

\* One iteration of `while True`.
pagination_loop(outcome) ==
    /\ pc = "paging"
    /\ Len(responses) < MaxPages
    /\ LET response == list_threads_result(op.fields, outcome)
           threads == threads_after(all_threads, response)
       IN  /\ responses' = Append(responses, response)
           /\ http_log' = IF list_threads_gets(op.fields)
                          THEN Append(http_log, loop_request(after_cursor))
                          ELSE http_log
           /\ all_threads' = threads
           /\ after_cursor' = IF HasError(response) THEN after_cursor
                              ELSE next_cursor(response)
           /\ IF ~loop_breaks(response)
              THEN pc' = "paging" /\ UNCHANGED <<result, merger>>
              ELSE IF op.name = "fetch_all_threads_with_pagination"
              THEN result' = threads /\ pc' = "returned" /\ UNCHANGED merger
              ELSE after_paging(threads)
    /\ UNCHANGED <<session, op, after_exchange_ok>>

----------------------------------------------------------------------------
(* Merger. *)

InsightBodies ==
    {[data |-> <<[name |-> "likes", values |-> <<[value |-> "5"], [value |-> "6"]>>],
                 [name |-> "views", values |-> <<>>]>>],
     [data |-> <<[name |-> "views", values |-> <<[value |-> "9"]>>]>>],
     [data |-> <<>>],
     [id |-> "insights"]}

MetricLists == {<<"likes", "views">>, <<"likes", "bogus">>}

\* dataframe["id"]
id_column(df) == [i \in DOMAIN df.rows |-> df.rows[i]["id"]]

\* insights_list after the iteration for media_id that received resp.
insights_after(list, media_id, resp) ==
    IF HasError(resp) THEN list
    ELSE Append(list, [media_id |-> media_id, insights |-> resp])

\* Mutant of merge_from: an insights table without rows is joined all the same.
merge_from_joins_empty(threads, list, client_name) ==
    IF list = <<>> THEN threads
    ELSE combined_df(threads, insights_to_dataframe(list), client_name)

\* fetch_and_merge_threads_with_insights once insights_list is complete.
merge_from(threads, list, client_name) ==
    IF list = <<>> THEN threads
    ELSE LET insights_df == insights_to_dataframe(list)
         IN  IF IsEmpty(insights_df) THEN threads
             ELSE combined_df(threads, insights_df, client_name)

\* The call; the pager runs first.
fetch_and_merge_threads_with_insights(access_token, fields, metrics, client_name, since, until) ==
    /\ pc = "idle"
    /\ op' = [name |-> "fetch_and_merge_threads_with_insights", access_token |-> access_token,
              fields |-> fields, since |-> since, until |-> until, limit |-> DefaultLimit,
              metrics |-> metrics, client_name |-> client_name]
    /\ pc' = "paging"
    /\ all_threads' = <<>>
    /\ after_cursor' = NoneV
    /\ responses' = <<>>
    /\ http_log' = <<>>
    /\ UNCHANGED <<session, result, after_exchange_ok, merger>>

\* One iteration of `for media_id in dataframe["id"]`; the last one goes on
\* to the end of fetch_and_merge_threads_with_insights.
insights_loop(outcome) ==
    /\ pc = "insights"
    /\ LET ids == id_column(threads_df)
           media_id == ids[Len(outcomes) + 1]
           resp == media_insights_result(op.metrics, outcome)
           list == insights_after(insights_list, media_id, resp)
       IN  /\ outcomes' = Append(outcomes, resp)
           /\ http_log' = IF media_insights_gets(op.metrics)
                          THEN Append(http_log,
                                      media_insights_request(op.access_token, media_id, op.metrics))
                          ELSE http_log
           /\ insights_list' = list
           /\ IF Len(outcomes) + 1 < Len(ids)
              THEN pc' = "insights" /\ UNCHANGED result
              ELSE /\ result' = merge_from(threads_df, list, op.client_name)
                   /\ pc' = "returned"
    /\ UNCHANGED <<session, op, after_exchange_ok, pager, threads_df>>

----------------------------------------------------------------------------
(* The caller. *)

NoOp == [name |-> "none"]

\* The caller takes the returned value; the client is ready for the next call.
Consume ==
    /\ pc = "returned"
    /\ pc' = "idle"
    /\ after_exchange_ok' = (op.name = "exchange_code_for_token"
                             /\ "short_lived_token" \in DOMAIN result)
    /\ op' = NoOp
    /\ result' = NoneObj
    /\ http_log' = <<>>
    /\ all_threads' = <<>>
    /\ after_cursor' = NoneV
    /\ responses' = <<>>
    /\ threads_df' = EmptyDataFrame
    /\ insights_list' = <<>>
    /\ outcomes' = <<>>
    /\ UNCHANGED session

\* __init__: the credentials come from the arguments or the environment, or
\* are missing; no token is stored.
Fresh ==
    /\ short_lived_token = NoneV
    /\ long_lived_token = NoneV
    /\ pc = "idle"
    /\ result = NoneObj
    /\ http_log = <<>>
    /\ after_exchange_ok = FALSE
    /\ all_threads = <<>>
    /\ after_cursor = NoneV
    /\ responses = <<>>
    /\ threads_df = EmptyDataFrame
    /\ insights_list = <<>>
    /\ outcomes = <<>>

Init ==
    /\ client_id \in {NoneV, "cid"}
    /\ client_secret \in {NoneV, "sec"}
    /\ op = NoOp
    /\ Fresh

TokenArgs == {NoneV, "", "tokC"}

\* <<since, until, breakdown>> of get_threads_user_insights.
InsightsArgs == {<<0, 0, NoneV>>, <<5, 9, "age">>, <<5, 0, "zodiac">>, <<0, 9, "">>}

\* <<since, until, limit, before, after>> of get_list_user_threads.
ListArgs ==
    {<<0, 0, 0, NoneV, NoneV>>, <<5, 9, DefaultLimit, NoneV, "A">>,
     <<5, 0, 0, "B", "A">>, <<0, 9, DefaultLimit, "B", "">>}

ExchangeCodeForToken ==
    \E redirect_url \in RedirectUrls, outcome \in HttpOutcomes(TokenBodies) :
        exchange_code_for_token(redirect_url, outcome)

GetLongLivedToken ==
    \E token \in TokenArgs, outcome \in HttpOutcomes(TokenBodies) :
        get_long_lived_token(token, outcome)

GetThreadsUserInsights ==
    \E metrics \in NameLists, a \in InsightsArgs, outcome \in HttpOutcomes(MetricBodies) :
        get_threads_user_insights("tokA", metrics, a[1], a[2], a[3], outcome)

GetMediaInsights ==
    \E metrics \in NameLists, outcome \in HttpOutcomes(MetricBodies) :
        get_media_insights("tokA", "t1", metrics, outcome)

GetListUserThreads ==
    \E fields \in NameLists, a \in ListArgs, outcome \in HttpOutcomes(SomePages) :
        get_list_user_threads("tokA", fields, a[1], a[2], a[3], a[4], a[5], outcome)

Next ==
    \/ ExchangeCodeForToken
    \/ GetLongLivedToken
    \/ GetThreadsUserInsights
    \/ GetMediaInsights
    \/ GetListUserThreads
    \/ Consume

Spec == Init /\ [][Next]_vars

FetchAllThreadsWithPagination ==
    \E fields \in FieldLists :
        fetch_all_threads_with_pagination("tokA", fields, 5, 0, DefaultLimit)

PaginationLoop ==
    \E outcome \in IF op.name = "fetch_all_threads_with_pagination"
                    THEN PageOutcomes ELSE MergePageOutcomes :
        pagination_loop(outcome)

FetchAndMergeThreadsWithInsights ==
    \E fields \in FieldLists, metrics \in MetricLists :
        fetch_and_merge_threads_with_insights("tokA", fields, metrics, "acme", 0, 9)

InsightsLoop == \E outcome \in HttpOutcomes(InsightBodies) : insights_loop(outcome)

NextPager ==
    \/ FetchAllThreadsWithPagination
    \/ PaginationLoop
    \/ FetchAndMergeThreadsWithInsights
    \/ InsightsLoop
    \/ Consume

\* The pager and the merger read no field of the client: one construction.
InitPager == Init /\ client_id = "cid" /\ client_secret = "sec"

SpecPager == InitPager /\ [][NextPager]_vars

----------------------------------------------------------------------------
(* convert_account_insights_to_dataframe.  A pure function of the response *)
(* of the account insights endpoint; an exception that leaves it is the    *)
(* value Raised.                                                           *)

Raised(exception) == [raised |-> exception]
IsRaised(value) == "raised" \in DOMAIN value

\* datetime.fromtimestamp(ts, tz=timezone.utc).strftime('%Y-%m-%d %H:%M:%S')
FormatTs(ts) == <<"%Y-%m-%d %H:%M:%S", ts>>

\* The paging.previous URL is the record of its numeric query parameters:
\* re.search(r"since=(\d+)", prev_url) finds the parameter or nothing.
since_of(response) ==
    IF "paging" \in DOMAIN response /\ "previous" \in DOMAIN response.paging
       /\ "since" \in DOMAIN response.paging.previous
    THEN FormatTs(response.paging.previous.since) ELSE NoneV

until_of(response) ==
    IF "paging" \in DOMAIN response /\ "previous" \in DOMAIN response.paging
       /\ "until" \in DOMAIN response.paging.previous
    THEN FormatTs(response.paging.previous.until) ELSE NoneV

base_row(item, response) ==
    << <<"name", Get(item, "name")>>,
       <<"title", Get(item, "title")>>,
       <<"description", Get(item, "description")>>,
       <<"since", since_of(response)>>,
       <<"until", until_of(response)>>,
       <<"total_value", Get(GetOr(item, "total_value", EmptyObj), "value")>>,
       <<"id", Get(item, "id")>> >>

\* result.get("dimension_values", [None])[0] raises IndexError on [].
first_raises(res) ==
    "dimension_values" \in DOMAIN res /\ res.dimension_values = <<>>

first_dimension_value(res) == GetOr(res, "dimension_values", <<NoneV>>)[1]

\* row_copy = base_row.copy(); row_copy.update({...})
result_row(base, dimension_key, res) ==
    DictSet(DictSet(DictSet(base, "dimension_key", dimension_key),
                    "dimension_value", first_dimension_value(res)),
            "value", Get(res, "value"))

breakdown_rows(base, breakdown) ==
    LET dimension_key == Join(",", GetOr(breakdown, "dimension_keys", <<>>))
        results == GetOr(breakdown, "results", <<>>)
    IN  [i \in DOMAIN results |-> result_row(base, dimension_key, results[i])]

RECURSIVE demographics_rows(_, _)
demographics_rows(base, breakdowns) ==
    IF breakdowns = <<>> THEN <<>>
    ELSE breakdown_rows(base, breakdowns[1]) \o demographics_rows(base, Tail(breakdowns))

RECURSIVE Sum(_)
Sum(numbers) == IF numbers = <<>> THEN 0 ELSE numbers[1] + Sum(Tail(numbers))

\* sum(v.get("value", 0) for v in item["values"])
total_views(values) == Sum([i \in DOMAIN values |-> GetOr(values[i], "value", 0)])

views_row(base, item) ==
    DictSet(DictSet(DictSet(base, "total_value", total_views(item.values)),
                    "value", NoneV),
            "end_time", NoneV)

series_rows(base, item) ==
    [i \in DOMAIN item.values |->
        DictSet(DictSet(base, "value", Get(item.values[i], "value")),
                "end_time", Get(item.values[i], "end_time"))]

\* The branch of the item loop the item takes.
IsDemographics(item) ==
    Get(item, "name") = "follower_demographics" /\ "total_value" \in DOMAIN item

\* The rows the loop appends for one item.
item_rows(item, response) ==
    LET base == base_row(item, response)
    IN  IF IsDemographics(item)
        THEN demographics_rows(base, GetOr(item.total_value, "breakdowns", <<>>))
        ELSE IF Get(item, "name") = "views" /\ "values" \in DOMAIN item
        THEN <<views_row(base, item)>>
        ELSE IF "values" \in DOMAIN item
        THEN series_rows(base, item)
        ELSE <<base>>

\* Whether the loop raises on the item.
item_raises(item) ==
    /\ IsDemographics(item)
    /\ LET breakdowns == GetOr(item.total_value, "breakdowns", <<>>)
       IN  \E b \in DOMAIN breakdowns :
              LET results == GetOr(breakdowns[b], "results", <<>>)
              IN  \E r \in DOMAIN results : first_raises(results[r])

RECURSIVE all_rows(_, _)
all_rows(data, response) ==
    IF data = <<>> THEN <<>>
    ELSE item_rows(data[1], response) \o all_rows(Tail(data), response)

\* What convert_account_insights_to_dataframe returns, or raises.
converted(response) ==
    IF "data" \notin DOMAIN response THEN EmptyDataFrame
    ELSE IF \E i \in DOMAIN response.data : item_raises(response.data[i])
    THEN Raised("IndexError")
    ELSE DataFrame(all_rows(response.data, response))

DimensionResults ==
    {[value |-> "10"],
     [dimension_values |-> <<>>, value |-> "20"],
     [dimension_values |-> <<"US", "CA">>, value |-> "30"]}

DimensionKeys == {<<"country">>, <<"country", "age">>}

Breakdowns ==
    {[dimension_keys |-> k, results |-> r] :
        k \in DimensionKeys, r \in SeqsUpTo(DimensionResults, MaxResults)}
    \cup {[results |-> <<[dimension_values |-> <<"DE">>]>>], [dimension_keys |-> <<"city">>]}

DemographicsItems ==
    {[name |-> "follower_demographics", id |-> "i1",
      total_value |-> [breakdowns |-> b]] : b \in SeqsUpTo(Breakdowns, MaxBreakdowns)}
    \cup {[name |-> "follower_demographics", total_value |-> [value |-> 7]],
          [name |-> "follower_demographics", title |-> "Demographics"]}

OtherItems ==
    {[name |-> "views", values |-> <<[value |-> 3], [value |-> 5], [end_time |-> "e3"]>>],
     [name |-> "views", total_value |-> [value |-> 8]],
     [name |-> "likes", title |-> "Likes", description |-> "d", id |-> "i2",
      values |-> <<[value |-> 3, end_time |-> "e1"], [value |-> 4]>>],
     [name |-> "followers_count", total_value |-> [value |-> 100]]}

PagingObjs ==
    {[previous |-> [since |-> 5, until |-> 9]], [previous |-> [until |-> 9]],
     [next |-> [since |-> 9]]}

AccountResponses ==
    {[data |-> <<d>>] : d \in DemographicsItems}
    \cup {[data |-> <<o, d>>, paging |-> p] :
             o \in OtherItems, p \in PagingObjs,
             d \in {x \in DemographicsItems : ~IsDemographics(x)
                                               \/ Len(GetOr(x.total_value, "breakdowns", <<>>)) = 0}}
    \cup {ErrBody, [data |-> <<>>]}

convert_account_insights_to_dataframe(response) ==
    /\ pc = "idle"
    /\ op' = [name |-> "convert_account_insights_to_dataframe", response |-> response]
    /\ result' = converted(response)
    /\ pc' = "returned"
    /\ UNCHANGED <<session, http_log, after_exchange_ok, pager, merger>>

ConvertAccountInsightsToDataframe ==
    \E response \in AccountResponses : convert_account_insights_to_dataframe(response)

\* The converter reads no field of the client: one construction.
InitConvert == Init /\ client_id = "cid" /\ client_secret = "sec"

NextConvert == ConvertAccountInsightsToDataframe

SpecConvert == InitConvert /\ [][NextConvert]_vars

\* One client used for everything: the token manager, the fetches, the
\* pager, the merger and the converter, in any order.
SessionPaginationLoop == \E outcome \in HttpOutcomes(SomePages) : pagination_loop(outcome)

SessionInsightsLoop == \E outcome \in HttpOutcomes(MetricBodies) : insights_loop(outcome)

SessionConvert ==
    \E response \in {ErrBody, [data |-> <<>>],
                      [data |-> <<[name |-> "views", values |-> <<[value |-> 3]>>]>>]} :
        convert_account_insights_to_dataframe(response)

NextSession ==
    \/ ExchangeCodeForToken
    \/ GetLongLivedToken
    \/ GetThreadsUserInsights
    \/ GetMediaInsights
    \/ GetListUserThreads
    \/ FetchAllThreadsWithPagination
    \/ SessionPaginationLoop
    \/ FetchAndMergeThreadsWithInsights
    \/ SessionInsightsLoop
    \/ SessionConvert
    \/ Consume

SpecSession == Init /\ [][NextSession]_vars

----------------------------------------------------------------------------
(* What the claims speak of, stated on the server's answers and not with   *)
(* the operators of the model.                                             *)

\* The page carries a non-empty paging.cursors.after.
CarriesAfter(page) ==
    /\ "paging" \in DOMAIN page
    /\ "cursors" \in DOMAIN page.paging
    /\ "after" \in DOMAIN page.paging.cursors
    /\ page.paging.cursors.after \notin {"", NoneV}

\* The page's data array.
DataOf(page) == IF "data" \in DOMAIN page THEN page.data ELSE <<>>

\* The data arrays of the pages, one after the other.
RECURSIVE Concatenation(_)
Concatenation(pages) ==
    IF pages = <<>> THEN <<>>
    ELSE Concatenation(SubSeq(pages, 1, Len(pages) - 1)) \o DataOf(pages[Len(pages)])

Paginating == op.name = "fetch_all_threads_with_pagination"
Merging == op.name = "fetch_and_merge_threads_with_insights"

\* The returned run received n successful pages, all but the last with a cursor.
SuccessfulPages ==
    /\ Paginating /\ pc = "returned" /\ responses # <<>>
    /\ \A k \in DOMAIN responses : ~HasError(responses[k])
    /\ \A k \in 1..(Len(responses) - 1) : CarriesAfter(responses[k])
    /\ ~CarriesAfter(responses[Len(responses)])

\* C1: over n successful pages, all but the last carrying a cursor,
\* fetch_all_threads_with_pagination issues exactly n list requests, the
\* first without 'after', request k+1 with the cursor page k returned, none
\* with 'before', and returns the pages' data arrays concatenated in order.
C1_PagesConcatenated ==
    SuccessfulPages =>
        /\ Len(http_log) = Len(responses)
        /\ \A k \in DOMAIN http_log :
              /\ http_log[k].endpoint = <<"me/threads">>
              /\ "before" \notin DOMAIN http_log[k].params
        /\ "after" \notin DOMAIN http_log[1].params
        /\ \A k \in 1..(Len(responses) - 1) :
              /\ "after" \in DOMAIN http_log[k + 1].params
              /\ http_log[k + 1].params["after"] = responses[k].paging.cursors.after
        /\ result = Concatenation(responses)

\* Three pages with the cursors A, B and none, the first and the last with data.
C1_Witness ==
    /\ SuccessfulPages
    /\ Len(responses) = 3
    /\ responses[1].paging.cursors.after = "A"
    /\ responses[2].paging.cursors.after = "B"
    /\ DataOf(responses[1]) # <<>>
    /\ DataOf(responses[3]) # <<>>
    /\ DataOf(responses[1]) # DataOf(responses[3])

\* C2: when the k-th list request of fetch_all_threads_with_pagination
\* reports an error, it is the last request of the run, the run has
\* returned, and it returned the data of the pages 1..k-1 concatenated.
C2_ErrorKeepsPriorPages ==
    Paginating =>
        \A k \in DOMAIN responses :
            HasError(responses[k]) =>
                /\ k = Len(responses)
                /\ Len(http_log) <= k
                /\ pc = "returned"
                /\ result = Concatenation(SubSeq(responses, 1, k - 1))

\* The third request fails after two pages with data.
C2_Witness ==
    /\ Paginating /\ pc = "returned"
    /\ Len(responses) = 3
    /\ HasError(responses[3])
    /\ CodeOf(responses[3]) = "THREADS_FETCH_FAILED"
    /\ Len(result) = 2

\* A request of the log goes to the media insights endpoint.
IsMediaRequest(request) ==
    Len(request.endpoint) = 3 /\ request.endpoint[3] = "/insights"

\* C3: when the pager yields no thread, fetch_and_merge_threads_with_insights
\* returns the empty table and the run has issued no media-insights request.
C3_NoThreadsNoInsights ==
    (Merging /\ pc = "returned" /\ all_threads = <<>>) =>
        /\ result = EmptyDataFrame
        /\ outcomes = <<>>
        /\ \A k \in DOMAIN http_log : ~IsMediaRequest(http_log[k])

\* The run paged twice, over pages without threads, and returned.
C3_Witness ==
    /\ Merging /\ pc = "returned" /\ all_threads = <<>>
    /\ Len(responses) = 2
    /\ ~HasError(responses[2])
    /\ Len(http_log) = 2

\* The response makes the loop stop: an error, or no non-empty cursor.
Stops(response) == HasError(response) \/ ~CarriesAfter(response)

\* C10: fetch_all_threads_with_pagination has returned exactly when some
\* response was an error or carried no non-empty cursor; as long as every
\* page carries a cursor the loop goes on, whatever the number of pages and
\* even when the cursor never changes, and the accumulator holds all their data.
C10_StopsOnlyOnErrorOrNoCursor ==
    (Paginating /\ pc \in {"paging", "returned"}) =>
        /\ pc = "returned" <=> \E k \in DOMAIN responses : Stops(responses[k])
        /\ pc = "paging" =>
              /\ all_threads = Concatenation(responses)
              /\ after_cursor = IF responses = <<>> THEN NoneV
                                ELSE responses[Len(responses)].paging.cursors.after

\* The server gave the same cursor on every one of MaxPages pages and the
\* loop is still running, with MaxThreads threads accumulated.
C10_Witness ==
    /\ Paginating /\ pc = "paging"
    /\ Len(responses) = MaxPages
    /\ \A k \in DOMAIN responses : responses[k].paging.cursors.after = "A"
    /\ Len(all_threads) = MaxThreads

----------------------------------------------------------------------------
(* The merge. *)

\* fetch_and_merge_threads_with_insights has returned the joined table.
MergeReached ==
    Merging /\ pc = "returned" /\ "client" \in Range(result.columns)

\* The columns of the returned table that hold metrics.
MetricColumns ==
    Range(result.columns) \ (Range(threads_df.columns) \cup {"client", "captured_at"})

\* The insight fetch of the i-th thread failed or returned no data.
WithoutInsights(i) ==
    \/ HasError(outcomes[i])
    \/ "data" \notin DOMAIN outcomes[i]
    \/ outcomes[i].data = <<>>

\* The identifiers of the threads the pager returned are pairwise distinct.
DistinctIds ==
    \A i, j \in DOMAIN all_threads : i # j => all_threads[i].id # all_threads[j].id

\* Every row of the table that belongs to the i-th thread has null metrics.
NullMetrics(i) ==
    \A r \in DOMAIN result.rows :
        result.rows[r]["id"] = all_threads[i].id =>
            \A c \in MetricColumns : result.rows[r][c] = NaN

\* C4 as claimed: the joined table holds every thread of the pager exactly
\* once (as many rows as threads), and a thread without insights has null
\* metrics, whatever the outcomes of the fetches.
C4_EveryThreadExactlyOnce ==
    MergeReached =>
        /\ Len(result.rows) = Len(all_threads)
        /\ \A i \in DOMAIN all_threads :
              /\ \E r \in DOMAIN result.rows : result.rows[r]["id"] = all_threads[i].id
              /\ WithoutInsights(i) => NullMetrics(i)

\* C4 as amended: the joined table holds every thread of the pager at least
\* once; when the threads' identifiers are pairwise distinct it holds them
\* exactly once, in the pager's order, and a thread without insights has
\* null metrics, whatever the outcomes of the fetches.
C4_EveryThreadKept ==
    MergeReached =>
        /\ Len(result.rows) >= Len(all_threads)
        /\ \A i \in DOMAIN all_threads :
              \E r \in DOMAIN result.rows : result.rows[r]["id"] = all_threads[i].id
        /\ DistinctIds =>
              /\ Len(result.rows) = Len(all_threads)
              /\ \A i \in DOMAIN all_threads :
                    /\ result.rows[i]["id"] = all_threads[i].id
                    /\ WithoutInsights(i) => NullMetrics(i)

\* Two threads, the fetch of the first failed, the second has a likes value.
C4_Witness ==
    /\ MergeReached /\ DistinctIds
    /\ Len(all_threads) = 2
    /\ HasError(outcomes[1])
    /\ "likes" \in MetricColumns
    /\ result.rows[1]["likes"] = NaN
    /\ result.rows[2]["likes"] = "5"

----------------------------------------------------------------------------
(* The token manager and the validated operations. *)

\* The query string has no 'code' parameter with a value.
NoCode(redirect_url) ==
    \A i \in DOMAIN redirect_url :
        redirect_url[i][1] = "code" => redirect_url[i][2] = ""

Exchanged == pc = "returned" /\ op.name = "exchange_code_for_token"

\* C5: exchange_code_for_token on a URL without a 'code' parameter, or with
\* an empty one, returns MISSING_CODE and makes no HTTP call, whether or not
\* the client credentials are set.
C5_MissingCodeFirst ==
    (Exchanged /\ NoCode(op.redirect_url)) =>
        /\ CodeOf(result) = "MISSING_CODE"
        /\ http_log = <<>>

\* An empty code parameter, and no client secret either.
C5_Witness ==
    /\ Exchanged
    /\ op.redirect_url = << <<"state", "s">>, <<"code", "">> >>
    /\ client_secret = NoneV
    /\ CodeOf(result) = "MISSING_CODE"

\* The allow-list of each validated operation.
AllowList(name) ==
    IF name = "get_threads_user_insights" THEN Range(USER_VALID_METRICS)
    ELSE IF name = "get_media_insights" THEN Range(MEDIA_VALID_METRICS)
    ELSE Range(VALID_FIELDS)

Validated ==
    /\ pc = "returned"
    /\ op.name \in {"get_threads_user_insights", "get_media_insights", "get_list_user_threads"}

\* The requested names that are not allowed, in the order of the request.
Disallowed == SelectSeq(op.names, LAMBDA n : n \notin AllowList(op.name))

\* The message is the one about names that are not allowed.
AboutNames(message) == Len(message) > 3 /\ message[1] = "Invalid " /\ message[3] = "(s): "

\* The names the message lists before its list of the valid names.
ListedNames(message) ==
    LET stop == CHOOSE i \in DOMAIN message : message[i] \in {". Valid "}
    IN  SelectSeq(SubSeq(message, 4, stop - 1), LAMBDA piece : piece # ", ")

\* C6: each validated operation, asked for a name outside its allow-list,
\* returns INVALID_INPUT with a message that lists every such name in the
\* order of the request, and issues no HTTP request; asked for allowed
\* names only, it returns no INVALID_INPUT about names.
C6_EveryDisallowedNameListed ==
    Validated =>
        IF Disallowed # <<>>
        THEN /\ CodeOf(result) = "INVALID_INPUT"
             /\ AboutNames(result.error.message)
             /\ ListedNames(result.error.message) = Disallowed
             /\ http_log = <<>>
        ELSE ~(CodeOf(result) = "INVALID_INPUT" /\ AboutNames(result.error.message))

\* A field list with two names that are not allowed, the second one first.
C6_Witness ==
    /\ Validated
    /\ op.name = "get_list_user_threads"
    /\ op.names = <<"shares", "bogus">>
    /\ CodeOf(result) = "INVALID_INPUT"

\* The code each HTTP operation gives to a non-200 answer.
FailedCode(name) ==
    IF name = "exchange_code_for_token" THEN "TOKEN_EXCHANGE_FAILED"
    ELSE IF name = "get_long_lived_token" THEN "LONG_TOKEN_EXCHANGE_FAILED"
    ELSE IF name = "get_threads_user_insights" THEN "INSIGHTS_FETCH_FAILED"
    ELSE IF name = "get_media_insights" THEN "MEDIA_INSIGHTS_FAILED"
    ELSE "THREADS_FETCH_FAILED"

\* One of the five HTTP operations has returned after its HTTP call.
Called ==
    /\ pc = "returned"
    /\ op.name \in {"exchange_code_for_token", "get_long_lived_token",
                    "get_threads_user_insights", "get_media_insights",
                    "get_list_user_threads"}
    /\ http_log # <<>>

\* C7 as claimed: whatever the HTTP collaborator answers, the operation
\* returns the success payload on status 200, an error value with the
\* endpoint's own code on any other status, and REQUEST_FAILED on a
\* transport failure.
C7_CodeFollowsOutcome ==
    Called =>
        LET answer == http_log[1].answer
        IN  IF answer.kind = "exception" THEN CodeOf(result) = "REQUEST_FAILED"
            ELSE IF answer.status_code = 200 THEN CodeOf(result) = NoneV
            ELSE CodeOf(result) = FailedCode(op.name)

LongLived == pc = "returned" /\ op.name = "get_long_lived_token"

\* The token get_long_lived_token is to exchange: the argument when one is
\* given, the stored short-lived token otherwise.
C9_UsesArgumentOrStored ==
    (LongLived /\ http_log # <<>>) =>
        http_log[1].access_token =
            IF op.short_lived_token \notin {NoneV, ""} THEN op.short_lived_token
            ELSE short_lived_token

\* MISSING_TOKEN, and no HTTP call, exactly when there is neither an
\* argument nor a stored short-lived token.
C9_MissingTokenExactly ==
    LongLived =>
        /\ CodeOf(result) = "MISSING_TOKEN"
              <=> (op.short_lived_token \in {NoneV, ""} /\ short_lived_token \in {NoneV, ""})
        /\ CodeOf(result) = "MISSING_TOKEN" => http_log = <<>>

\* After a successful exchange_code_for_token, get_long_lived_token()
\* without argument does not return MISSING_TOKEN.
C9_AfterExchange ==
    (LongLived /\ after_exchange_ok /\ op.short_lived_token = NoneV) =>
        CodeOf(result) # "MISSING_TOKEN"

\* C9 as claimed: get_long_lived_token uses the argument or else the stored
\* token, returns MISSING_TOKEN exactly when it has neither, and never
\* returns MISSING_TOKEN right after a successful exchange_code_for_token.
C9_LongLivedTokenSource ==
    C9_UsesArgumentOrStored /\ C9_MissingTokenExactly /\ C9_AfterExchange

----------------------------------------------------------------------------
(* The demographics branch of convert_account_insights_to_dataframe. *)

\* The response holds one follower_demographics item with total_value.breakdowns.
DemographicsConverted ==
    /\ pc = "returned"
    /\ op.name = "convert_account_insights_to_dataframe"
    /\ "data" \in DOMAIN op.response
    /\ Len(op.response.data) = 1
    /\ Get(op.response.data[1], "name") = "follower_demographics"
    /\ "total_value" \in DOMAIN op.response.data[1]
    /\ "breakdowns" \in DOMAIN op.response.data[1].total_value

\* The (breakdown, result) pairs of the breakdowns, in order.
RECURSIVE Pairs(_)
Pairs(breakdowns) ==
    IF breakdowns = <<>> THEN <<>>
    ELSE LET b == breakdowns[1]
             results == IF "results" \in DOMAIN b THEN b.results ELSE <<>>
         IN  [i \in DOMAIN results |-> [breakdown |-> b, res |-> results[i]]]
             \o Pairs(Tail(breakdowns))

\* The first of the result's dimension_values, None without one.
FirstOrNone(r) ==
    IF "dimension_values" \in DOMAIN r /\ r.dimension_values # <<>>
    THEN r.dimension_values[1] ELSE NoneV

\* C8 as claimed: a follower_demographics item with total_value.breakdowns
\* yields one row per (breakdown, result) pair, with the comma-joined
\* dimension_keys, the result's value, and the first dimension value, or
\* null when the result has no dimension values or an empty array of them.
C8_RowPerBreakdownResult ==
    DemographicsConverted =>
        LET pairs == Pairs(op.response.data[1].total_value.breakdowns)
        IN  /\ ~IsRaised(result)
            /\ Len(result.rows) = Len(pairs)
            /\ \A i \in DOMAIN pairs :
                  /\ result.rows[i]["dimension_key"] =
                        Join(",", IF "dimension_keys" \in DOMAIN pairs[i].breakdown
                                  THEN pairs[i].breakdown.dimension_keys ELSE <<>>)
                  /\ result.rows[i]["value"] = Get(pairs[i].res, "value")
                  /\ result.rows[i]["dimension_value"] = FirstOrNone(pairs[i].res)

----------------------------------------------------------------------------
(* The short circuits of fetch_and_merge_threads_with_insights. *)

\* fetch_and_merge_threads_with_insights has returned.
MergeReturned == Merging /\ pc = "returned"

\* The returned value is a table: nothing was raised and no error value
\* takes the table's place.
IsTable(value) == DOMAIN value = {"columns", "rows"}

\* Every per-thread fetch of the run failed.
EveryFetchFailed == \A i \in DOMAIN outcomes : HasError(outcomes[i])

\* None of the fetched insights carries a data array.
NoDataArray == \A i \in DOMAIN outcomes : "data" \notin DOMAIN outcomes[i]

\* The table is the flattened thread table: one row per thread of the pager,
\* in order, not joined and without the client and captured_at columns.
IsThreadTable(table) ==
    /\ table = threads_df
    /\ Len(table.rows) = Len(all_threads)
    /\ \A i \in DOMAIN all_threads : table.rows[i]["id"] = all_threads[i].id
    /\ Range(table.columns) \cap {"client", "captured_at", "media_id", "likes", "views"} = {}

\* The table is the joined one: client and captured_at first, then the
\* thread columns, every row carrying the client label.
IsJoinedTable(table) ==
    /\ Len(table.columns) >= 2 + Len(threads_df.columns)
    /\ table.columns[1] = "client"
    /\ table.columns[2] = "captured_at"
    /\ SubSeq(table.columns, 3, 2 + Len(threads_df.columns)) = threads_df.columns
    /\ "media_id" \notin Range(table.columns)
    /\ \A r \in DOMAIN table.rows : table.rows[r]["client"] = op.client_name

----------------------------------------------------------------------------
(* The frame of the token session state. *)

TokenOps == {"exchange_code_for_token", "get_long_lived_token"}

\* The step is a call of the named operation that sent its request and
\* received HTTP 200.
Received200(name) ==
    /\ pc = "idle" /\ pc' = "returned"
    /\ op'.name = name
    /\ Len(http_log') = 1
    /\ http_log'[1].answer.kind = "response"
    /\ http_log'[1].answer.status_code = 200

ErrorCodes ==
    {"MISSING_CODE", "MISSING_ENV", "MISSING_TOKEN", "TOKEN_EXCHANGE_FAILED",
     "LONG_TOKEN_EXCHANGE_FAILED", "REQUEST_FAILED"}

\* The step is a token operation that returns an error value (the success
\* values carry "error": None).
ReturnsError ==
    /\ pc = "idle" /\ pc' = "returned"
    /\ op'.name \in TokenOps
    /\ CodeOf(result') \in ErrorCodes

\* The step belongs to an operation other than the two token operations:
\* a call of it, or a later iteration of its loop.
OtherOperation ==
    \/ pc = "idle" /\ op'.name \notin TokenOps
    \/ pc \in {"paging", "insights"}

TokensUnchanged ==
    /\ short_lived_token' = short_lived_token
    /\ long_lived_token' = long_lived_token

\* C12: the stored short-lived token changes only in an
\* exchange_code_for_token call that received HTTP 200, the stored
\* long-lived token only in a get_long_lived_token call that received HTTP
\* 200; a token call that returns an error leaves both fields unchanged,
\* and so does every step of an insights, listing, pagination or flattening
\* operation.
C12_TokenFrame ==
    [][/\ short_lived_token' # short_lived_token => Received200("exchange_code_for_token")
       /\ long_lived_token' # long_lived_token => Received200("get_long_lived_token")
       /\ ReturnsError => TokensUnchanged
       /\ OtherOperation => TokensUnchanged]_vars

\* Both tokens are stored and the exchange that just failed with a non-200
\* answer has left them in place.
C12_Witness ==
    /\ pc = "returned"
    /\ op.name = "exchange_code_for_token"
    /\ CodeOf(result) = "TOKEN_EXCHANGE_FAILED"
    /\ short_lived_token = "tokA"
    /\ long_lived_token = "tokA"

====
